---- MODULE Spec2Model ----
(***************************************************************************)
(* Model of klg2.c, the KL-G2 tape printer utility: main's job sequence,   *)
(* the command functions, the two transport functions and the raster       *)
(* streaming loop.  One step of the model is one call of                   *)
(* libusb_bulk_transfer (a frame sent or a frame received) together with   *)
(* the code that runs up to the next such call.                            *)
(***************************************************************************)
EXTENDS Integers, Naturals, Sequences, FiniteSets, TLC

(***************************************************************************)
(* Bounds of the model.  The image widths explored are 0..MaxSmallWidth    *)
(* and the widths within MaxDelta columns of 1..MaxPages full pages.       *)
(***************************************************************************)
MaxSmallWidth == 16
MaxPages == 2
MaxDelta == 15
MaxRspLen == 3
MaxImgWidth == 9
MaxSmallHeight == 3
MaxTailLen == 5

(***************************************************************************)
(* Program constants.                                                      *)
(***************************************************************************)
EPSIZE_1 == 1
EPSIZE_16 == 16
EPSIZE_64 == 64
PRINTER_ACK == 6
PRINTER_NAK == 30
PRINTER_STX == 2
IMAGE_ROWS == 128
BLOCK_LIMIT == 60
PAGE_LIMIT == 8192

OPERATION_PRINT == "OPERATION_PRINT"
OPERATION_FEED == "OPERATION_FEED"
OPERATION_CUT == "OPERATION_CUT"
OPERATION_HALFCUT == "OPERATION_HALFCUT"
OPERMODE_T == {OPERATION_PRINT, OPERATION_FEED, OPERATION_CUT, OPERATION_HALFCUT}

U8(n) == n % 256

VARIABLES
    pc,             \* the call of main (or of printer_send_raster) in progress
    io,             \* "send": its frame is not sent yet; "recv": answer awaited
    opt_operation,  \* the operation selected by handle_options
    need_cancel,    \* main's latch
    devhnd,         \* TRUE while the device handle is open
    claimed,        \* TRUE while the interface is claimed
    exit_code,      \* "none" while running, else how the process ended
    pattern_size,   \* load_image's result, rawsize of printer_send_raster
    sent_size,      \* locals of printer_send_raster
    page_size,
    block_size,
    block,          \* printer_send_raster: the block buffer, block[0..63]
    sent,           \* history: the non-raster commands handed to the transport
    lastCmd,        \* history: the last command handed to the transport
    lastTx,         \* history: cnt and epsize of the last outbound transfer
    nSend,          \* history: outbound transfers issued
    nRecv,          \* history: inbound transfers issued
    nBlock,         \* history: RasterBlock commands sent
    nEnd,           \* history: RasterEnd commands sent
    nPage,          \* history: PrintPage commands sent
    lastBlk,        \* history: blksize of the last RasterBlock sent
    pagePayload,    \* history: payload sent since the last PrintPage
    transportErr,   \* history: a transfer returned rc # 0 or a short count
    prevCmd,        \* history: the command sent before lastCmd
    lastRet,        \* history: what the answer to lastCmd was judged (0 or 1)
    rasterBytes,    \* history: payload bytes of all RasterBlock commands sent
    lastFrame,      \* history: the bytes handed to the last outbound transfer
    setupErr,       \* history: a setup step of a print job reported failure
    protoErr,       \* history: a command reported a recoverable failure
    ack_cmd,        \* a command function called on its own
    ack_rsp,        \* the answer its receive gets
    ack_ret,        \* "none" until it returns, then "0", "1" or "SIGABRT"
    fin,            \* load_image called on its own: the bitmap on its stream
    lpc,            \* load_image: the statement in progress
    image_w,        \* global: the width in pixels
    img_w,          \* load_image: the bytes of a row
    img_h,          \* load_image: the rows read
    pad_h,          \* load_image: the rows left empty above the image
    image_stripes,  \* global: the 128 canvas rows
    pattern,        \* global: the transposed image
    row_i,          \* load_image: the loop counter i
    load_rc,        \* "none" until load_image returns, then "0" or "1"
    wr_max,         \* history: the largest pattern index written, -1 if none
    ch              \* load_image: uint8_t ch, the character last read

ctl == <<pc, io, exit_code>>
dev == <<devhnd, claimed>>
job == <<opt_operation, need_cancel, pattern_size>>
ras == <<sent_size, page_size, block_size, block>>
hist == <<sent, lastCmd, lastTx, nSend, nRecv, nBlock, nEnd, nPage, lastBlk,
          pagePayload, transportErr, prevCmd, lastRet, rasterBytes,
          lastFrame>>
errs == <<setupErr, protoErr>>
main_vars == <<ctl, dev, job, ras, hist, errs>>
ackv == <<ack_cmd, ack_rsp, ack_ret>>
ldv == <<fin, lpc, image_w, img_w, img_h, pad_h, image_stripes, pattern,
         row_i, load_rc, wr_max>>
hdv == <<ch>>
aux == <<ackv, ldv, hdv>>
vars == <<pc, io, opt_operation, need_cancel, devhnd, claimed, exit_code,
          pattern_size, sent_size, page_size, block_size, sent, lastCmd,
          lastTx, nSend, nRecv, nBlock, nEnd, nPage, lastBlk, pagePayload,
          transportErr, prevCmd, lastRet, rasterBytes, lastFrame,
          setupErr, protoErr, block, ack_cmd, ack_rsp, ack_ret, fin, lpc,
          image_w, img_w, img_h, pad_h, image_stripes, pattern, row_i,
          load_rc, wr_max, ch>>

(***************************************************************************)
(* The device side: what a bulk transfer can return.                       *)
(***************************************************************************)
TransferRc == {0, -1}
TxCounts(epsize) == {0, epsize}

STATUS_OK == <<PRINTER_STX, 128, 2, 0, 0, 166>>
PREJOB_OK == <<PRINTER_STX, 128, 1, 0, 1>>
Responses ==
    { <<>>, <<PRINTER_ACK>>, <<PRINTER_NAK>>, <<PRINTER_ACK, PRINTER_ACK>>,
      STATUS_OK, <<PRINTER_STX, 128, 2, 0, 0, 0>>,
      PREJOB_OK, <<PRINTER_STX, 128, 1, 0, 0>> }

RasterCmds == {"RasterBlock", "RasterEnd", "PrintPage"}

(***************************************************************************)
(* send_to_printer and recv_from_printer.                                  *)
(***************************************************************************)
Abort ==
    /\ pc' = "aborted"
    /\ io' = "none"
    /\ exit_code' = "SIGABRT"

\* a send_to_printer that does not look at the transferred count
SendFailsRcOnly(rc, txcnt, epsize) == rc # 0

\* send_to_printer: the transfer is given up when rc # 0 or txcnt # epsize
SendFails(rc, txcnt, epsize) == rc # 0 \/ txcnt # epsize

\* recv_from_printer: the transfer is given up when rc # 0
RecvFails(rc) == rc # 0

\* a byte whose value the program never set
Indeterminate == -1

\* a send_to_printer that copies the whole array instead of cnt bytes
OutFrameNoPad(d, cnt, epsize) ==
    [i \in 1 .. epsize |-> IF i <= Len(d) THEN d[i] ELSE 0]

\* memset(out, 0, KLG2_EPSIZE); memcpy(out, d, cnt); then epsize bytes of
\* out are handed to libusb_bulk_transfer
OutFrame(d, cnt, epsize) ==
    [i \in 1 .. epsize |->
        IF i > cnt THEN 0
        ELSE IF i <= Len(d) THEN d[i]
        ELSE Indeterminate]

\* the outbound libusb_bulk_transfer call, as the history records it
SendEvent(cmd, d, cnt, epsize, payload, rc, txcnt) ==
    /\ lastFrame' = OutFrame(d, cnt, epsize)
    /\ nSend' = nSend + 1
    /\ nRecv' = nRecv
    /\ lastCmd' = cmd
    /\ prevCmd' = lastCmd
    /\ lastRet' = 0
    /\ rasterBytes' = IF cmd = "RasterBlock" THEN rasterBytes + payload
                      ELSE rasterBytes
    /\ lastTx' = [cnt |-> cnt, epsize |-> epsize]
    /\ sent' = IF cmd \in RasterCmds THEN sent ELSE Append(sent, cmd)
    /\ nBlock' = IF cmd = "RasterBlock" THEN nBlock + 1 ELSE nBlock
    /\ nEnd' = IF cmd = "RasterEnd" THEN nEnd + 1 ELSE nEnd
    /\ nPage' = IF cmd = "PrintPage" THEN nPage + 1 ELSE nPage
    /\ lastBlk' = IF cmd = "RasterBlock" THEN payload ELSE lastBlk
    /\ pagePayload' = IF cmd = "RasterBlock" THEN pagePayload + payload
                      ELSE IF cmd = "PrintPage" THEN 0 ELSE pagePayload
    /\ transportErr' = (transportErr \/ rc # 0 \/ txcnt # epsize)

\* the inbound libusb_bulk_transfer call, as the history records it
RecvEvent(rc, ret) ==
    /\ nRecv' = nRecv + 1
    /\ lastRet' = IF rc # 0 THEN lastRet ELSE ret
    /\ transportErr' = (transportErr \/ rc # 0)
    /\ UNCHANGED <<sent, lastCmd, lastTx, nSend, nBlock, nEnd, nPage, lastBlk,
                   pagePayload, prevCmd, rasterBytes, lastFrame>>

send_to_printer(cmd, d, cnt, epsize, payload, okpc, okio) ==
    IF cnt > epsize
    THEN /\ Abort
         /\ UNCHANGED hist
    ELSE \E rc \in TransferRc : \E txcnt \in TxCounts(epsize) :
            /\ SendEvent(cmd, d, cnt, epsize, payload, rc, txcnt)
            /\ IF SendFails(rc, txcnt, epsize)
               THEN Abort
               ELSE /\ pc' = okpc
                    /\ io' = okio
                    /\ exit_code' = exit_code

(***************************************************************************)
(* The response validators of the command functions: 0 success, 1 failure. *)
(***************************************************************************)
\* a validator that looks at the first byte only
AckFirstByteOnly(rsp) ==
    IF Len(rsp) = 0 \/ rsp[1] # PRINTER_ACK THEN 1 ELSE 0

printer_recv_ack(rsp) ==
    IF Len(rsp) # 1 \/ rsp[1] # PRINTER_ACK THEN 1 ELSE 0

check_status_result(rsp) ==
    IF Len(rsp) # 6 THEN 1
    ELSE IF rsp[1] # PRINTER_STX \/ rsp[2] # 128 \/ rsp[3] # 2
            \/ rsp[4] # 0 \/ rsp[5] # 0 \/ rsp[6] # 166 THEN 1
    ELSE 0

prejob_result(rsp) ==
    IF Len(rsp) # 5 THEN 1
    ELSE IF rsp[1] # PRINTER_STX \/ rsp[2] # 128 \/ rsp[3] # 1
            \/ rsp[4] # 0 \/ rsp[5] # 1 THEN 1
    ELSE 0

(***************************************************************************)
(* The option values and the frames of the command functions.              *)
(***************************************************************************)
TAPECODE_T == {33024, 34048, 33539, 34563, 34307}
MARGINCODE_T == {64, 128, 2, 1}
DENSITYCODE_T == {254, 255, 0, 1, 2}
CUTTERCODE_T == {0, 1, 255}

idcheck == <<PRINTER_STX, 29>>
reset == <<2, 1>>
tapecut == <<8>>
tapehalfcut == <<9>>
tapefeed == <<10>>
canceljob == <<24>>
cfg1 == <<PRINTER_STX, 2, 4, 0, 0, 9, 9, 1>>
cfg2 == <<PRINTER_STX, 130>>
psa == <<PRINTER_STX, 28, 1, 0, 0>>
mtc(tapeid) == <<PRINTER_STX, 23, 2, 0, tapeid \div 256, tapeid % 256>>
afs(marginid) == <<PRINTER_STX, 13, 1, 0, marginid>>
dms(densityid) == <<PRINTER_STX, 9, 6, 0, 0, 0, 1, 0, densityid, 0>>
cms(cutterid) == <<PRINTER_STX, 25, 1, 0, cutterid>>
raster_end == <<PRINTER_STX, 4>>
print_page == <<12>>

(***************************************************************************)
(* The two halves of a command function: its frame goes out while          *)
(* io = "send" and its answer is read while io = "recv".                   *)
(***************************************************************************)
SendFrame(cmd, d, cnt, epsize, payload) ==
    /\ io = "send"
    /\ send_to_printer(cmd, d, cnt, epsize, payload, pc, "recv")
    /\ UNCHANGED <<dev, job, ras, errs>>

recv_from_printer(rc, ret) ==
    /\ io = "recv"
    /\ RecvEvent(rc, ret)

RecvAbort ==
    /\ Abort
    /\ UNCHANGED <<dev, job, ras, errs>>

(***************************************************************************)
(* Inputs: the image on standard input, as main sees load_image's result.  *)
(***************************************************************************)
PageCols == PAGE_LIMIT \div (IMAGE_ROWS \div 8)
Widths ==
    (0 .. MaxSmallWidth) \cup
    { p * PageCols + d : p \in 1 .. MaxPages, d \in (0 - MaxDelta) .. MaxDelta }
Images == {[ok |-> FALSE, image_w |-> 0]} \cup
          {[ok |-> TRUE, image_w |-> w] : w \in Widths}

MainInit ==
    /\ pc = "libusb_init"
    /\ io = "none"
    /\ opt_operation \in OPERMODE_T
    /\ need_cancel = FALSE
    /\ devhnd = FALSE
    /\ claimed = FALSE
    /\ exit_code = "none"
    /\ pattern_size = 0
    /\ sent_size = 0
    /\ page_size = 0
    /\ block_size = 0
    /\ sent = <<>>
    /\ lastCmd = "none"
    /\ lastTx = [cnt |-> 0, epsize |-> 0]
    /\ nSend = 0
    /\ nRecv = 0
    /\ nBlock = 0
    /\ nEnd = 0
    /\ nPage = 0
    /\ lastBlk = 0
    /\ pagePayload = 0
    /\ transportErr = FALSE
    /\ prevCmd = "none"
    /\ lastRet = 0
    /\ rasterBytes = 0
    /\ lastFrame = <<>>
    /\ block = [i \in 1 .. EPSIZE_64 |-> Indeterminate]
    /\ setupErr = FALSE
    /\ protoErr = FALSE

\* no command function is called on its own
AckIdle ==
    /\ ack_cmd = "none"
    /\ ack_rsp = <<>>
    /\ ack_ret = "none"

\* load_image is not called on its own
LoadIdle ==
    /\ fin = [w |-> 0, h |-> 0, fill |-> "none", rows |-> 0]
    /\ lpc = "idle"
    /\ image_w = 0
    /\ img_w = 0
    /\ img_h = 0
    /\ pad_h = 0
    /\ image_stripes = <<>>
    /\ pattern = <<>>
    /\ row_i = 0
    /\ load_rc = "none"
    /\ wr_max = -1

\* the header of the bitmap is not being read
HeaderIdle == ch = 0

Init ==
    /\ MainInit
    /\ AckIdle
    /\ LoadIdle
    /\ HeaderIdle

(***************************************************************************)
(* main: opening the device.                                               *)
(***************************************************************************)
LibusbInit ==
    /\ pc = "libusb_init"
    /\ UNCHANGED aux
    /\ \E ok \in BOOLEAN :
         IF ok THEN pc' = "open" /\ exit_code' = exit_code
         ELSE pc' = "ret_init" /\ exit_code' = "rc"
    /\ UNCHANGED <<io, dev, job, ras, hist, errs>>

OpenDevice ==
    /\ pc = "open"
    /\ UNCHANGED aux
    /\ \E found \in BOOLEAN :
         IF found
         THEN pc' = "claim" /\ devhnd' = TRUE /\ exit_code' = exit_code
         ELSE pc' = "ret_open" /\ devhnd' = FALSE /\ exit_code' = "1"
    /\ UNCHANGED <<io, claimed, job, ras, hist, errs>>

ClaimInterface ==
    /\ pc = "claim"
    /\ UNCHANGED aux
    /\ \E rc \in TransferRc :
         IF rc # 0
         THEN /\ pc' = "ret_claim" /\ io' = io /\ exit_code' = "1"
              /\ claimed' = FALSE
         ELSE /\ pc' = "status1" /\ io' = "send" /\ exit_code' = exit_code
              /\ claimed' = TRUE
    /\ UNCHANGED <<devhnd, job, ras, hist, errs>>

(***************************************************************************)
(* main: what it does with a command's result.                             *)
(***************************************************************************)
\* the result is dropped
Ignore(r, nextpc, nextio) ==
    /\ pc' = nextpc
    /\ io' = nextio
    /\ exit_code' = exit_code
    /\ protoErr' = (protoErr \/ r # 0)
    /\ setupErr' = (setupErr \/ (r # 0 /\ opt_operation = OPERATION_PRINT))
    /\ UNCHANGED <<dev, job, ras>>

\* the step main runs after a latched result: a set latch skips every
\* "if (!need_cancel)" down to printer_cancel_job
AfterLatch(nc, nextpc) == IF nc THEN "cancel" ELSE nextpc

\* need_cancel = <result>
Latch(r, nextpc, nextio) ==
    /\ need_cancel' = (r # 0)
    /\ pc' = AfterLatch(r # 0, nextpc)
    /\ io' = IF r # 0 THEN "send" ELSE nextio
    /\ exit_code' = exit_code
    /\ protoErr' = (protoErr \/ r # 0)
    /\ setupErr' = (setupErr \/ r # 0)
    /\ UNCHANGED <<dev, opt_operation, pattern_size, ras>>

\* main's print sequence without the second reset
MainNextNoSecondReset(p) ==
    CASE p = "status1" -> "reset1"
      [] p = "load" -> "prejob1"
      [] p = "prejob1" -> "prejob2"
      [] p = "prejob2" -> "tape"
      [] p = "tape" -> "speed"
      [] p = "reset2" -> "speed"
      [] p = "speed" -> "margin"
      [] p = "margin" -> "density"
      [] p = "density" -> "cutter"
      [] p = "cutter" -> "status2"
      [] p = "status2" -> "r_loop"

\* the call that follows call p in main's text
MainNext(p) ==
    CASE p = "status1" -> "reset1"
      [] p = "load" -> "prejob1"
      [] p = "prejob1" -> "prejob2"
      [] p = "prejob2" -> "tape"
      [] p = "tape" -> "reset2"
      [] p = "reset2" -> "speed"
      [] p = "speed" -> "margin"
      [] p = "margin" -> "density"
      [] p = "density" -> "cutter"
      [] p = "cutter" -> "status2"
      [] p = "status2" -> "r_loop"

\* a switch in which the half-cut case runs the cut
SwitchTargetHalfCutAsCut(op) ==
    CASE op = OPERATION_FEED -> "feed"
      [] op = OPERATION_CUT -> "cut"
      [] op = OPERATION_HALFCUT -> "cut"
      [] op = OPERATION_PRINT -> "load"

\* switch (opt_operation)
SwitchTarget(op) ==
    CASE op = OPERATION_FEED -> "feed"
      [] op = OPERATION_CUT -> "cut"
      [] op = OPERATION_HALFCUT -> "halfcut"
      [] op = OPERATION_PRINT -> "load"

SwitchIo(op) == IF SwitchTarget(op) = "load" THEN "none" ELSE "send"

(***************************************************************************)
(* main: the standard sequence and the non-print operations.               *)
(***************************************************************************)
CheckStatus1 ==
    /\ pc = "status1"
    /\ UNCHANGED aux
    /\ \/ SendFrame("StatusCheck", idcheck, 2, EPSIZE_16, 0)
       \/ \E rc \in TransferRc : \E rsp \in Responses :
            /\ recv_from_printer(rc, check_status_result(rsp))
            /\ IF RecvFails(rc) THEN RecvAbort
               ELSE LET r == check_status_result(rsp) IN
                 Ignore(r, MainNext("status1"), "send")

Reset1 ==
    /\ pc = "reset1"
    /\ UNCHANGED aux
    /\ \/ SendFrame("Reset", reset, 2, EPSIZE_16, 0)
       \/ \E rc \in TransferRc : \E rsp \in Responses :
            /\ recv_from_printer(rc, printer_recv_ack(rsp))
            /\ IF RecvFails(rc) THEN RecvAbort
               ELSE LET r == printer_recv_ack(rsp) IN
                 Ignore(r, SwitchTarget(opt_operation),
                 SwitchIo(opt_operation))

TapeFeed ==
    /\ pc = "feed"
    /\ UNCHANGED aux
    /\ \/ SendFrame("TapeFeed", tapefeed, 1, EPSIZE_1, 0)
       \/ \E rc \in TransferRc : \E rsp \in Responses :
            /\ recv_from_printer(rc, printer_recv_ack(rsp))
            /\ IF RecvFails(rc) THEN RecvAbort
               ELSE LET r == printer_recv_ack(rsp) IN
                 Ignore(r, "cleanup", "none")

TapeCut ==
    /\ pc = "cut"
    /\ UNCHANGED aux
    /\ \/ SendFrame("TapeCut", tapecut, 1, EPSIZE_1, 0)
       \/ \E rc \in TransferRc : \E rsp \in Responses :
            /\ recv_from_printer(rc, printer_recv_ack(rsp))
            /\ IF RecvFails(rc) THEN RecvAbort
               ELSE LET r == printer_recv_ack(rsp) IN
                 Ignore(r, "cleanup", "none")

TapeHalfCut ==
    /\ pc = "halfcut"
    /\ UNCHANGED aux
    /\ \/ SendFrame("TapeHalfCut", tapehalfcut, 1, EPSIZE_1, 0)
       \/ \E rc \in TransferRc : \E rsp \in Responses :
            /\ recv_from_printer(rc, printer_recv_ack(rsp))
            /\ IF RecvFails(rc) THEN RecvAbort
               ELSE LET r == printer_recv_ack(rsp) IN
                 Ignore(r, "cleanup", "none")

(***************************************************************************)
(* main: the print job.                                                    *)
(***************************************************************************)
\* rc = load_image(stdin); if (rc) return 1;  A bitmap whose rows end in
\* set padding bits makes the transpose write outside the pattern buffer:
\* load_image returns all the same, or the process is killed in it.
LoadImage ==
    /\ pc = "load"
    /\ UNCHANGED aux
    /\ \/ \E img \in Images :
            IF img.ok
            THEN /\ pattern_size' = (IMAGE_ROWS \div 8) * img.image_w
                 /\ pc' = AfterLatch(need_cancel, MainNext("load"))
                 /\ io' = "send"
                 /\ exit_code' = exit_code
            ELSE /\ pattern_size' = pattern_size
                 /\ pc' = "ret_load"
                 /\ io' = "none"
                 /\ exit_code' = "1"
       \/ /\ pattern_size' = pattern_size
          /\ pc' = "aborted"
          /\ io' = "none"
          /\ exit_code' = "SIGSEGV"
    /\ UNCHANGED <<dev, opt_operation, need_cancel, ras, hist, errs>>

\* printer_prejob, first frame: a failure returns 1 to main
Prejob1 ==
    /\ pc = "prejob1"
    /\ UNCHANGED aux
    /\ \/ SendFrame("Prejob1", cfg1, 8, EPSIZE_16, 0)
       \/ \E rc \in TransferRc : \E rsp \in Responses :
            /\ recv_from_printer(rc, printer_recv_ack(rsp))
            /\ IF RecvFails(rc) THEN RecvAbort
               ELSE LET r == printer_recv_ack(rsp) IN
                 IF r # 0 THEN Latch(1, MainNext("prejob2"), "send")
                 ELSE /\ pc' = MainNext("prejob1")
                      /\ io' = "send"
                      /\ UNCHANGED <<exit_code, dev, job, ras, errs>>

\* printer_prejob, second frame
Prejob2 ==
    /\ pc = "prejob2"
    /\ UNCHANGED aux
    /\ \/ SendFrame("Prejob2", cfg2, 2, EPSIZE_16, 0)
       \/ \E rc \in TransferRc : \E rsp \in Responses :
            /\ recv_from_printer(rc, prejob_result(rsp))
            /\ IF RecvFails(rc) THEN RecvAbort
               ELSE LET r == prejob_result(rsp) IN
                 Latch(r, MainNext("prejob2"), "send")

CheckTape ==
    /\ pc = "tape"
    /\ UNCHANGED aux
    /\ \/ \E tapeid \in TAPECODE_T :
            SendFrame("CheckTape", mtc(tapeid), 6, EPSIZE_16, 0)
       \/ \E rc \in TransferRc : \E rsp \in Responses :
            /\ recv_from_printer(rc, printer_recv_ack(rsp))
            /\ IF RecvFails(rc) THEN RecvAbort
               ELSE LET r == printer_recv_ack(rsp) IN
                 Latch(r, MainNext("tape"), "send")

Reset2 ==
    /\ pc = "reset2"
    /\ UNCHANGED aux
    /\ \/ SendFrame("Reset", reset, 2, EPSIZE_16, 0)
       \/ \E rc \in TransferRc : \E rsp \in Responses :
            /\ recv_from_printer(rc, printer_recv_ack(rsp))
            /\ IF RecvFails(rc) THEN RecvAbort
               ELSE LET r == printer_recv_ack(rsp) IN
                 Latch(r, MainNext("reset2"), "send")

SetSpeed ==
    /\ pc = "speed"
    /\ UNCHANGED aux
    /\ \/ SendFrame("SetSpeed", psa, 5, EPSIZE_16, 0)
       \/ \E rc \in TransferRc : \E rsp \in Responses :
            /\ recv_from_printer(rc, printer_recv_ack(rsp))
            /\ IF RecvFails(rc) THEN RecvAbort
               ELSE LET r == printer_recv_ack(rsp) IN
                 Latch(r, MainNext("speed"), "send")

SetMargin ==
    /\ pc = "margin"
    /\ UNCHANGED aux
    /\ \/ \E marginid \in MARGINCODE_T :
            SendFrame("SetMargin", afs(marginid), 5, EPSIZE_16, 0)
       \/ \E rc \in TransferRc : \E rsp \in Responses :
            /\ recv_from_printer(rc, printer_recv_ack(rsp))
            /\ IF RecvFails(rc) THEN RecvAbort
               ELSE LET r == printer_recv_ack(rsp) IN
                 Latch(r, MainNext("margin"), "send")

SetDensity ==
    /\ pc = "density"
    /\ UNCHANGED aux
    /\ \/ \E densityid \in DENSITYCODE_T :
            SendFrame("SetDensity", dms(densityid), 10, EPSIZE_16, 0)
       \/ \E rc \in TransferRc : \E rsp \in Responses :
            /\ recv_from_printer(rc, printer_recv_ack(rsp))
            /\ IF RecvFails(rc) THEN RecvAbort
               ELSE LET r == printer_recv_ack(rsp) IN
                 Latch(r, MainNext("density"), "send")

SetCutter ==
    /\ pc = "cutter"
    /\ UNCHANGED aux
    /\ \/ \E cutterid \in CUTTERCODE_T :
            SendFrame("SetCutter", cms(cutterid), 5, EPSIZE_16, 0)
       \/ \E rc \in TransferRc : \E rsp \in Responses :
            /\ recv_from_printer(rc, printer_recv_ack(rsp))
            /\ IF RecvFails(rc) THEN RecvAbort
               ELSE LET r == printer_recv_ack(rsp) IN
                 Latch(r, MainNext("cutter"), "send")

\* the second status check; on success printer_send_raster is entered,
\* whose locals start at 0
CheckStatus2 ==
    /\ pc = "status2"
    /\ UNCHANGED aux
    /\ \/ SendFrame("StatusCheck", idcheck, 2, EPSIZE_16, 0)
       \/ \E rc \in TransferRc : \E rsp \in Responses :
            /\ recv_from_printer(rc, check_status_result(rsp))
            /\ IF RecvFails(rc) THEN RecvAbort
               ELSE LET r == check_status_result(rsp) IN
                 Latch(r, MainNext("status2"), "none")

(***************************************************************************)
(* printer_send_raster.                                                    *)
(***************************************************************************)
\* a flush test that lets the block grow one byte too far
FlushDueOffByOne(bs, ps, ss, rawsize) ==
    bs = BLOCK_LIMIT + 1 \/ ps = PAGE_LIMIT \/ ss = rawsize

\* a flush test that forgets the page limit
FlushDueNoPage(bs, ps, ss, rawsize) ==
    bs = BLOCK_LIMIT \/ ss = rawsize

\* a page test that forgets the end of the pattern
PageDueFullOnly(ps, ss, rawsize) == ps = PAGE_LIMIT

\* the three conditions of the do-while body and its loop test
FlushDue(bs, ps, ss, rawsize) ==
    bs = BLOCK_LIMIT \/ ps = PAGE_LIMIT \/ ss = rawsize
EndDue(ss, rawsize) == ss = rawsize
\* a page closed one block before it is full
PageDueEarly(ps, ss, rawsize) == ps >= PAGE_LIMIT - BLOCK_LIMIT \/ ss = rawsize

PageDue(ps, ss, rawsize) == ps = PAGE_LIMIT \/ ss = rawsize
LoopAgain(ss, rawsize) == ss < rawsize

\* the iterations of the do-while loop up to the next block to flush
\* (flush = TRUE), or to the end of the loop when none is due; the unsigned
\* counters stay far below 2^32 for the widths explored, so none wraps
RECURSIVE Accumulate(_, _, _, _)
Accumulate(bs, ss, ps, rawsize) ==
    LET bs1 == bs + 1
        ss1 == ss + 1
        ps1 == ps + 1
    IN  IF FlushDue(bs1, ps1, ss1, rawsize)
        THEN [block_size |-> bs1, sent_size |-> ss1, page_size |-> ps1,
              flush |-> TRUE]
        ELSE IF LoopAgain(ss1, rawsize)
        THEN Accumulate(bs1, ss1, ps1, rawsize)
        ELSE [block_size |-> bs1, sent_size |-> ss1, page_size |-> ps1,
              flush |-> FALSE]

\* the pattern buffer read by printer_send_raster: byte i of the transposed
\* image, here a fixed non-zero content in which neighbours differ
PatternByte(i) == (i % 251) + 1

\* raw[i]: outside the buffer the value read is indeterminate
RawByte(i, rawsize) == IF i < rawsize THEN PatternByte(i) ELSE Indeterminate

\* a loop that stores each byte one place too far
BlockSlotShifted(bs) == 5 + bs

\* block[4 + block_size] = ...: the place of payload byte bs in the block
BlockSlot(bs) == 4 + bs

\* the block buffer after the iterations that took block_size from bs0 to
\* bs1, the first of them reading raw[ss0]
Filled(blk, bs0, bs1, ss0, rawsize) ==
    [i \in 1 .. EPSIZE_64 |->
        IF \E k \in bs0 .. bs1 - 1 : i = BlockSlot(k) + 1
        THEN RawByte(ss0 + (i - 1 - BlockSlot(bs0)), rawsize)
        ELSE blk[i]]

\* printer_raster_block(block, block_size), its send: the header is written
\* into the caller's buffer, then blksize + 4 bytes of it are sent
printer_raster_block_send ==
    LET blksize == U8(block_size)
        blk == [block EXCEPT ![1] = PRINTER_STX, ![2] = 254,
                             ![3] = blksize, ![4] = 0]
    IN  /\ io = "send"
        /\ block' = blk
        /\ send_to_printer("RasterBlock", blk, U8(blksize + 4), EPSIZE_64,
                           blksize, pc, "recv")
        /\ UNCHANGED <<dev, job, sent_size, page_size, block_size, errs>>

\* a printer_send_raster that never looks at what its commands return
FailedNever(r) == FALSE

\* if (printer_raster_block(...)) return 1; and the same for
\* printer_raster_end and printer_print_page
Failed(r) == r # 0

\* need_cancel = printer_send_raster(...), then printer_cancel_job
RasterReturn(r) ==
    /\ need_cancel' = (r # 0)
    /\ pc' = "cancel"
    /\ io' = "send"
    /\ exit_code' = exit_code
    /\ protoErr' = (protoErr \/ r # 0)
    /\ UNCHANGED <<dev, opt_operation, pattern_size, setupErr>>

\* while (sent_size < rawsize)
LoopTest ==
    IF LoopAgain(sent_size', pattern_size)
    THEN /\ pc' = "r_loop"
         /\ io' = "none"
         /\ UNCHANGED <<exit_code, dev, job, errs>>
    ELSE RasterReturn(0)

\* block[4 + block_size] = raw[sent_size] ... up to the next flush.  With
\* rawsize = 0 the first read is outside the (empty) pattern buffer: the
\* value read is never sent, or the read faults.
RasterLoop ==
    /\ pc = "r_loop"
    /\ UNCHANGED aux
    /\ \/ LET a == Accumulate(block_size, sent_size, page_size, pattern_size)
          IN  /\ block_size' = a.block_size
              /\ sent_size' = a.sent_size
              /\ page_size' = a.page_size
              /\ block' = Filled(block, block_size, a.block_size, sent_size,
                                 pattern_size)
              /\ IF a.flush
                 THEN /\ pc' = "r_block"
                      /\ io' = "send"
                      /\ UNCHANGED <<exit_code, dev, job, errs>>
                 ELSE LoopTest
       \/ /\ pattern_size = 0
          /\ pc' = "aborted"
          /\ io' = "none"
          /\ exit_code' = "SIGSEGV"
          /\ UNCHANGED <<dev, job, ras, errs>>
    /\ UNCHANGED hist

\* printer_raster_block(block, block_size): blksize and cnt are uint8_t
RasterBlock ==
    /\ pc = "r_block"
    /\ UNCHANGED aux
    /\ \/ printer_raster_block_send
       \/ \E rc \in TransferRc : \E rsp \in Responses :
            /\ recv_from_printer(rc, printer_recv_ack(rsp))
            /\ IF RecvFails(rc) THEN RecvAbort
               ELSE LET r == printer_recv_ack(rsp) IN
                 IF Failed(r)
                 THEN RasterReturn(1) /\ UNCHANGED ras
                 ELSE /\ block_size' = 0
                      /\ UNCHANGED <<sent_size, page_size, block>>
                      /\ IF EndDue(sent_size, pattern_size)
                         THEN /\ pc' = "r_end"
                              /\ io' = "send"
                              /\ UNCHANGED <<exit_code, dev, job, errs>>
                         ELSE IF PageDue(page_size, sent_size, pattern_size)
                         THEN /\ pc' = "r_page"
                              /\ io' = "send"
                              /\ UNCHANGED <<exit_code, dev, job, errs>>
                         ELSE LoopTest

RasterEnd ==
    /\ pc = "r_end"
    /\ UNCHANGED aux
    /\ \/ SendFrame("RasterEnd", raster_end, 2, EPSIZE_16, 0)
       \/ \E rc \in TransferRc : \E rsp \in Responses :
            /\ recv_from_printer(rc, printer_recv_ack(rsp))
            /\ IF RecvFails(rc) THEN RecvAbort
               ELSE LET r == printer_recv_ack(rsp) IN
                 IF Failed(r)
                 THEN RasterReturn(1) /\ UNCHANGED ras
                 ELSE /\ UNCHANGED ras
                      /\ IF PageDue(page_size, sent_size, pattern_size)
                         THEN /\ pc' = "r_page"
                              /\ io' = "send"
                              /\ UNCHANGED <<exit_code, dev, job, errs>>
                         ELSE LoopTest

PrintPage ==
    /\ pc = "r_page"
    /\ UNCHANGED aux
    /\ \/ SendFrame("PrintPage", print_page, 1, EPSIZE_1, 0)
       \/ \E rc \in TransferRc : \E rsp \in Responses :
            /\ recv_from_printer(rc, printer_recv_ack(rsp))
            /\ IF RecvFails(rc) THEN RecvAbort
               ELSE LET r == printer_recv_ack(rsp) IN
                 IF Failed(r)
                 THEN RasterReturn(1) /\ UNCHANGED ras
                 ELSE /\ page_size' = 0
                      /\ UNCHANGED <<sent_size, block_size, block>>
                      /\ LoopTest

(***************************************************************************)
(* main: the end of the print job and the cleanup.                         *)
(***************************************************************************)
\* a printer_cancel_job that reads an answer like the other commands
CancelJobAwaitsAck ==
    /\ pc = "cancel"
    /\ UNCHANGED aux
    /\ \/ SendFrame("CancelJob", canceljob, 1, EPSIZE_1, 0)
       \/ \E rc \in TransferRc : \E rsp \in Responses :
            /\ recv_from_printer(rc, printer_recv_ack(rsp))
            /\ IF RecvFails(rc) THEN RecvAbort
               ELSE /\ pc' = "cleanup"
                    /\ io' = "none"
                    /\ UNCHANGED <<exit_code, dev, job, ras, errs>>

\* printer_cancel_job: no answer is read
CancelJob ==
    /\ pc = "cancel"
    /\ UNCHANGED aux
    /\ send_to_printer("CancelJob", canceljob, 1, EPSIZE_1, 0, "cleanup", "none")
    /\ UNCHANGED <<dev, job, ras, errs>>

Cleanup ==
    /\ pc = "cleanup"
    /\ UNCHANGED aux
    /\ claimed' = FALSE
    /\ devhnd' = FALSE
    /\ pc' = "ret_end"
    /\ exit_code' = "0"
    /\ UNCHANGED <<io, job, ras, hist, errs>>

Next ==
    \/ LibusbInit
    \/ OpenDevice
    \/ ClaimInterface
    \/ CheckStatus1
    \/ Reset1
    \/ TapeFeed
    \/ TapeCut
    \/ TapeHalfCut
    \/ LoadImage
    \/ Prejob1
    \/ Prejob2
    \/ CheckTape
    \/ Reset2
    \/ SetSpeed
    \/ SetMargin
    \/ SetDensity
    \/ SetCutter
    \/ CheckStatus2
    \/ RasterLoop
    \/ RasterBlock
    \/ RasterEnd
    \/ PrintPage
    \/ CancelJob
    \/ Cleanup

Spec == Init /\ [][Next]_vars

Returned == pc \in {"ret_init", "ret_open", "ret_claim", "ret_load", "ret_end"}
Terminated == Returned \/ pc = "aborted"

TypeOK ==
    /\ io \in {"none", "send", "recv"}
    /\ opt_operation \in OPERMODE_T
    /\ need_cancel \in BOOLEAN
    /\ exit_code \in {"none", "rc", "0", "1", "SIGABRT", "SIGSEGV"}
    /\ (exit_code = "none") = ~Terminated
    /\ sent_size <= pattern_size \/ pattern_size = 0

(***************************************************************************)
(* The command functions on their own: one call, whose receive gets an     *)
(* arbitrary answer of at most MaxRspLen bytes.                            *)
(***************************************************************************)
RspBytes == {0, PRINTER_ACK, PRINTER_NAK, 255}
AckResponses ==
    UNION {[1 .. n -> RspBytes] : n \in 0 .. MaxRspLen}

\* the command functions that end in 'return printer_recv_ack(...)'
AckCommands ==
    { "Reset", "TapeCut", "TapeHalfCut", "TapeFeed", "SetSpeed", "CheckTape",
      "SetMargin", "SetDensity", "SetCutter", "Prefeed", "RasterBlock",
      "RasterEnd", "PrintPage" }

\* what the command function returns for the answer rsp
command_result(cmd, rsp) ==
    CASE cmd = "StatusCheck" -> check_status_result(rsp)
      [] cmd = "Prejob2" -> prejob_result(rsp)
      [] cmd = "CancelJob" -> 0
      [] OTHER -> printer_recv_ack(rsp)

InitAck ==
    /\ MainInit
    /\ opt_operation = OPERATION_PRINT
    /\ ack_cmd \in AckCommands
    /\ ack_rsp \in AckResponses
    /\ ack_ret = "none"
    /\ LoadIdle
    /\ HeaderIdle

\* the receive of the command function and its return
CommandReturn ==
    /\ ack_ret = "none"
    /\ \E rc \in TransferRc :
         ack_ret' = IF RecvFails(rc) THEN "SIGABRT"
                    ELSE ToString(command_result(ack_cmd, ack_rsp))
    /\ UNCHANGED <<ack_cmd, ack_rsp, main_vars, ldv, hdv>>

NextAck == CommandReturn

SpecAck == InitAck /\ [][NextAck]_vars

(***************************************************************************)
(* load_image on its own, from the point where the signature and the       *)
(* comments have been read: a bitmap of fin.w x fin.h pixels whose rows    *)
(* hold fin.fill, of which the stream delivers fin.rows rows.              *)
(***************************************************************************)
LoadWidths == 0 .. MaxImgWidth
LoadHeights ==
    (0 .. MaxSmallHeight) \cup ((IMAGE_ROWS - 2) .. (IMAGE_ROWS + 1))
Fills == {"ones", "low", "mix"}

\* byte k of bitmap row r
FileByte(fill, r, k) ==
    CASE fill = "ones" -> 255
      [] fill = "low" -> 1
      [] fill = "mix" -> (r * 37 + k * 101 + 85) % 256

\* img_w = (image_w + 7)/8
RowBytes(w) == (w + 7) \div 8

FileRow(f, r) == [k \in 1 .. RowBytes(f.w) |-> FileByte(f.fill, r, k - 1)]

Streams ==
    { [w |-> w, h |-> h, fill |-> fill, rows |-> n] :
        w \in LoadWidths, h \in LoadHeights, fill \in Fills,
        n \in 0 .. (IMAGE_ROWS + 1) }

\* a loader that rounds the upper padding up
PadTopCeil(h) == (IMAGE_ROWS - h + 1) \div 2

\* pad_h = (IMAGE_ROWS - img_h) / 2
PadTop(h) == (IMAGE_ROWS - h) \div 2

\* a transpose that takes bit b of the byte, least significant bit first
PixelSetLsbFirst(byte, b) == (byte \div (2 ^ b)) % 2 = 1

\* (image_stripes[i][w] << b) & 0x80
PixelSet(byte, b) == ((byte * (2 ^ b)) \div 128) % 2 = 1

\* v |= 1 << k
BitOr(v, k) == IF (v \div (2 ^ k)) % 2 = 1 THEN v ELSE v + 2 ^ k

\* the inner loops of the transpose for canvas row i, from column x on;
\* t holds the pattern, the largest index written and whether a write of
\* this row fell outside the pattern buffer
RECURSIVE TransposeFrom(_, _, _, _)
TransposeFrom(t, stripe, i, x) ==
    IF x >= 8 * Len(stripe) THEN t
    ELSE LET idx == x * (IMAGE_ROWS \div 8) + i \div 8
         IN  IF PixelSet(stripe[x \div 8 + 1], x % 8)
             THEN TransposeFrom(
                    [pattern |-> IF idx \in DOMAIN t.pattern
                                 THEN [t.pattern EXCEPT ![idx] = BitOr(@, i % 8)]
                                 ELSE t.pattern,
                     wr_max |-> IF idx > t.wr_max THEN idx ELSE t.wr_max,
                     oob |-> (t.oob \/ idx \notin DOMAIN t.pattern)],
                    stripe, i, x + 1)
             ELSE TransposeFrom(t, stripe, i, x + 1)

InitLoad ==
    /\ MainInit
    /\ opt_operation = OPERATION_PRINT
    /\ AckIdle
    /\ fin \in {f \in Streams : f.rows \in {f.h, f.h - 1}}
    /\ lpc = "size"
    /\ image_w = 0
    /\ img_w = 0
    /\ img_h = 0
    /\ pad_h = 0
    /\ image_stripes = <<>>
    /\ pattern = <<>>
    /\ row_i = 0
    /\ load_rc = "none"
    /\ wr_max = -1
    /\ HeaderIdle

LoadFails ==
    /\ lpc' = "failed"
    /\ load_rc' = "1"

\* fscanf of the size, the clamp of the height, the 128 calloc'ed stripes;
\* calloc(1, 0) may return a null pointer
ReadSize ==
    /\ lpc = "size"
    /\ image_w' = fin.w
    /\ img_w' = RowBytes(fin.w)
    /\ img_h' = IF fin.h > IMAGE_ROWS THEN IMAGE_ROWS ELSE fin.h
    /\ pad_h' = PadTop(img_h')
    /\ row_i' = 0
    /\ \E null \in IF img_w' = 0 THEN BOOLEAN ELSE {FALSE} :
         IF null
         THEN /\ LoadFails
              /\ image_stripes' = image_stripes
         ELSE /\ lpc' = "read"
              /\ load_rc' = load_rc
              /\ image_stripes' =
                    [r \in 0 .. IMAGE_ROWS - 1 |-> [k \in 1 .. img_w' |-> 0]]
    /\ UNCHANGED <<fin, pattern, wr_max, main_vars, ackv, hdv>>

\* fread(image_stripes[i+pad_h], img_w, 1, fin): fails at the end of the
\* stream, and returns 0 when img_w is 0
ReadRow ==
    /\ lpc = "read"
    /\ row_i < img_h
    /\ IF row_i < fin.rows /\ img_w > 0
       THEN /\ image_stripes' =
                 [image_stripes EXCEPT ![row_i + pad_h] = FileRow(fin, row_i)]
            /\ row_i' = row_i + 1
            /\ UNCHANGED <<lpc, load_rc>>
       ELSE /\ LoadFails
            /\ UNCHANGED <<image_stripes, row_i>>
    /\ UNCHANGED <<fin, image_w, img_w, img_h, pad_h, pattern, wr_max,
                   main_vars, ackv, hdv>>

\* pattern_size = IMAGE_ROWS/8 * image_w; pattern = calloc(1, pattern_size)
AllocPattern ==
    /\ lpc = "read"
    /\ row_i >= img_h
    /\ pattern_size' = (IMAGE_ROWS \div 8) * image_w
    /\ row_i' = 0
    /\ \E null \in IF pattern_size' = 0 THEN BOOLEAN ELSE {FALSE} :
         IF null
         THEN /\ LoadFails
              /\ pattern' = pattern
         ELSE /\ lpc' = "transpose"
              /\ load_rc' = load_rc
              /\ pattern' = [n \in 0 .. pattern_size' - 1 |-> 0]
    /\ UNCHANGED <<fin, image_w, img_w, img_h, pad_h, image_stripes, wr_max,
                   ctl, dev, opt_operation, need_cancel, ras, hist, errs,
                   ackv, hdv>>

\* one canvas row of the transpose, then 'return 0' after the last one.  A
\* write outside the pattern buffer is undefined: the process goes on with
\* its own objects untouched, or it is killed.
TransposeRow ==
    /\ lpc = "transpose"
    /\ row_i < IMAGE_ROWS
    /\ LET t == TransposeFrom([pattern |-> pattern, wr_max |-> wr_max,
                               oob |-> FALSE],
                              image_stripes[row_i], row_i, 0)
       IN  /\ pattern' = t.pattern
           /\ wr_max' = t.wr_max
           /\ row_i' = row_i + 1
           /\ \E killed \in IF t.oob THEN BOOLEAN ELSE {FALSE} :
                IF killed
                THEN /\ lpc' = "killed"
                     /\ load_rc' = "SIGSEGV"
                ELSE IF row_i' < IMAGE_ROWS
                THEN UNCHANGED <<lpc, load_rc>>
                ELSE /\ lpc' = "done"
                     /\ load_rc' = "0"
    /\ UNCHANGED <<fin, image_w, img_w, img_h, pad_h, image_stripes,
                   main_vars, ackv, hdv>>

NextLoad ==
    \/ ReadSize
    \/ ReadRow
    \/ AllocPattern
    \/ TransposeRow

SpecLoad == InitLoad /\ [][NextLoad]_vars

(***************************************************************************)
(* load_image on its own, its header: the signature, the comment lines and *)
(* the size.  Here fin is the sequence of the bytes not yet read; the      *)
(* streams are "P4\n" followed by at most MaxTailLen bytes, and a few that *)
(* break off or differ within the signature.                               *)
(***************************************************************************)
CH_P == 80
CH_4 == 52
CH_NL == 10
CH_HASH == 35
CH_DIGIT == 49
CH_SPACE == 32
CH_OTHER == 120
EOF == -1

TailBytes == {CH_HASH, CH_NL, CH_DIGIT, CH_SPACE, CH_OTHER}
Tails == UNION {[1 .. n -> TailBytes] : n \in 0 .. MaxTailLen}
Texts ==
    {<<CH_P, CH_4, CH_NL>> \o t : t \in Tails}
    \cup { <<>>, <<CH_P>>, <<CH_P, CH_4>>, <<CH_OTHER, CH_4, CH_NL>>,
           <<CH_P, CH_OTHER, CH_NL>>, <<CH_P, CH_4, CH_SPACE, CH_DIGIT>> }

\* getc(fin): the next byte, or EOF at the end of the stream
Getc(s) == IF s = <<>> THEN EOF ELSE Head(s)
AfterGetc(s) == IF s = <<>> THEN s ELSE Tail(s)

\* fscanf: white space skipped before %u and at a blank of the format
RECURSIVE SkipSpace(_)
SkipSpace(s) ==
    IF s # <<>> /\ Head(s) \in {CH_SPACE, CH_NL} THEN SkipSpace(Tail(s)) ELSE s

RECURSIVE SkipDigits(_)
SkipDigits(s) ==
    IF s # <<>> /\ Head(s) = CH_DIGIT THEN SkipDigits(Tail(s)) ELSE s

\* %u: what is left of s after the number, and whether one was there
ScanUnsigned(s) ==
    LET t == SkipSpace(s)
    IN  [rest |-> SkipDigits(t), ok |-> (t # <<>> /\ Head(t) = CH_DIGIT)]

\* fscanf(fin, "%u %u\n", &img_w, &img_h): the conversions made and the
\* bytes left on the stream
Fscanf(s) ==
    LET a == ScanUnsigned(s)
        b == ScanUnsigned(a.rest)
    IN  IF ~a.ok THEN [n |-> 0, rest |-> a.rest]
        ELSE IF ~b.ok THEN [n |-> 1, rest |-> b.rest]
        ELSE [n |-> 2, rest |-> SkipSpace(b.rest)]

InitHeader ==
    /\ MainInit
    /\ opt_operation = OPERATION_PRINT
    /\ AckIdle
    /\ fin \in Texts
    /\ lpc = "signature"
    /\ image_w = 0
    /\ img_w = 0
    /\ img_h = 0
    /\ pad_h = 0
    /\ image_stripes = <<>>
    /\ pattern = <<>>
    /\ row_i = 0
    /\ load_rc = "none"
    /\ wr_max = -1
    /\ ch = 0

HeaderRest ==
    UNCHANGED <<image_w, img_w, img_h, pad_h, image_stripes, pattern, row_i,
                wr_max, main_vars, ackv>>

\* if (getc(fin) != 'P' || getc(fin) != '4' || getc(fin) != '\n') return 1;
\* then uint8_t ch = getc(fin)
CheckSignature ==
    /\ lpc = "signature"
    /\ LET s1 == AfterGetc(fin)
           s2 == AfterGetc(s1)
           s3 == AfterGetc(s2)
       IN  IF Getc(fin) # CH_P
           THEN LoadFails /\ fin' = s1 /\ ch' = ch
           ELSE IF Getc(s1) # CH_4
           THEN LoadFails /\ fin' = s2 /\ ch' = ch
           ELSE IF Getc(s2) # CH_NL
           THEN LoadFails /\ fin' = s3 /\ ch' = ch
           ELSE /\ ch' = U8(Getc(s3))
                /\ fin' = AfterGetc(s3)
                /\ lpc' = "while"
                /\ load_rc' = load_rc
    /\ HeaderRest

\* while (ch == '#'); after the loop ungetc(ch, fin)
CommentTest ==
    /\ lpc = "while"
    /\ IF ch = CH_HASH
       THEN /\ lpc' = "skip"
            /\ fin' = fin
       ELSE /\ lpc' = "scan"
            /\ fin' = <<ch>> \o fin
    /\ UNCHANGED <<ch, load_rc>>
    /\ HeaderRest

\* do { ch = getc(fin);
SkipChar ==
    /\ lpc = "skip"
    /\ ch' = U8(Getc(fin))
    /\ fin' = AfterGetc(fin)
    /\ lpc' = "skiptest"
    /\ load_rc' = load_rc
    /\ HeaderRest

\* } while (ch != '\n'); ch = getc(fin);
SkipTest ==
    /\ lpc = "skiptest"
    /\ IF ch # CH_NL
       THEN /\ lpc' = "skip"
            /\ UNCHANGED <<ch, fin>>
       ELSE /\ ch' = U8(Getc(fin))
            /\ fin' = AfterGetc(fin)
            /\ lpc' = "while"
    /\ load_rc' = load_rc
    /\ HeaderRest

\* if (fscanf(fin, "%u %u\n", &img_w, &img_h) != 2) return 1; on success
\* load_image goes on with the statements SpecLoad starts from
ScanSize ==
    /\ lpc = "scan"
    /\ LET r == Fscanf(fin)
       IN  /\ fin' = r.rest
           /\ IF r.n # 2 THEN LoadFails
              ELSE /\ lpc' = "size"
                   /\ load_rc' = load_rc
    /\ ch' = ch
    /\ HeaderRest

NextHeader ==
    \/ CheckSignature
    \/ CommentTest
    \/ SkipChar
    \/ SkipTest
    \/ ScanSize

\* the process has one thread, which keeps running
SpecHeader == InitHeader /\ [][NextHeader]_vars /\ WF_vars(NextHeader)

(***************************************************************************)
(* Vocabulary of the properties.                                           *)
(***************************************************************************)
IsPrefix(s, t) == Len(s) <= Len(t) /\ SubSeq(t, 1, Len(s)) = s
CountOf(s, c) == Cardinality({i \in 1 .. Len(s) : s[i] = c})
RasterSent == nBlock + nEnd + nPage

\* the commands of a print job before the raster stream, in the stated order
PrintOrder ==
    << "StatusCheck", "Reset", "Prejob1", "Prejob2", "CheckTape", "Reset",
       "SetSpeed", "SetMargin", "SetDensity", "SetCutter", "StatusCheck" >>

\* the opcode command of a non-print operation
OpCmd(op) ==
    CASE op = OPERATION_FEED -> "TapeFeed"
      [] op = OPERATION_CUT -> "TapeCut"
      [] op = OPERATION_HALFCUT -> "TapeHalfCut"
      [] op = OPERATION_PRINT -> "none"

\* printer_send_raster has returned 0 to main
RasterDone ==
    /\ opt_operation = OPERATION_PRINT
    /\ pc \in {"cancel", "cleanup", "ret_end"}
    /\ ~need_cancel

(***************************************************************************)
(* C1.  In a print operation, once a setup step (first status check, first  *)
(* reset, prejob, tape check, second reset, speed, margin, density,        *)
(* cutter, second status check) has reported a recoverable error, the only *)
(* command still sent is cancel-job: no setup command and no raster        *)
(* command follows.  main drops the results of the first status check and  *)
(* of the first reset, so this fails (already for the frames whose         *)
(* transfer succeeds).                                                     *)
(***************************************************************************)
C1_NoCommandAfterSetupFailure ==
    [][(setupErr /\ nSend' # nSend /\ ~transportErr')
          => lastCmd' = "CancelJob"]_vars

(***************************************************************************)
(* C2.  Whenever a print operation returns and no transport error          *)
(* occurred, cancel-job was sent exactly once and it is the last command   *)
(* sent.  The return after a failed load_image sends none, so this fails.  *)
(***************************************************************************)
C2_CancelOnceAndLast ==
    (opt_operation = OPERATION_PRINT /\ pc \in {"ret_load", "ret_end"}
        /\ ~transportErr)
    => (CountOf(sent, "CancelJob") = 1 /\ lastCmd = "CancelJob")

(***************************************************************************)
(* C3.  In a print operation in which every response is valid the          *)
(* commands go out in the order status check, reset, prejob (both          *)
(* frames), tape check, reset, speed, margin, density, cutter, status      *)
(* check, then the raster stream, with nothing in between: the non-raster  *)
(* commands sent are always a prefix of that list followed by cancel-job,  *)
(* and raster commands are sent only when exactly that list was sent.      *)
(***************************************************************************)
C3_PrintCommandOrder ==
    (opt_operation = OPERATION_PRINT /\ ~protoErr)
    => /\ IsPrefix(sent, PrintOrder \o <<"CancelJob">>)
       /\ (RasterSent > 0 => Len(sent) >= Len(PrintOrder))
       /\ (lastCmd \in RasterCmds => sent = PrintOrder)
       /\ (pc \in {"r_loop", "r_block", "r_end", "r_page"} => sent = PrintOrder)
       /\ (pc = "ret_end" => sent = PrintOrder \o <<"CancelJob">>)
       /\ (pc = "ret_end" /\ pattern_size > 0 => nBlock > 0)

C3_Witness ==
    /\ opt_operation = OPERATION_PRINT
    /\ ~protoErr
    /\ pc = "ret_end"
    /\ nPage = 2
    /\ sent = PrintOrder \o <<"CancelJob">>

(***************************************************************************)
(* C4, as stated.  A non-print operation (feed, cut, half-cut) sends       *)
(* exactly one command, its own opcode.  The status check and the reset    *)
(* at the head of main run for every operation, so this fails.             *)
(***************************************************************************)
C4_SingleCommand ==
    (opt_operation # OPERATION_PRINT /\ pc = "ret_end" /\ ~protoErr)
    => (sent = <<OpCmd(opt_operation)>> /\ nSend = 1)

(***************************************************************************)
(* C4, amended.  A non-print operation sends exactly three commands: the   *)
(* status check, the reset, then its own opcode; no other command of the   *)
(* print job, no raster command and no cancel-job is ever sent, whatever   *)
(* the responses.                                                          *)
(***************************************************************************)
C4_NonPrintSequence ==
    opt_operation # OPERATION_PRINT
    => /\ IsPrefix(sent, <<"StatusCheck", "Reset", OpCmd(opt_operation)>>)
       /\ RasterSent = 0
       /\ nSend = Len(sent)
       /\ (pc = "ret_end" =>
             /\ sent = <<"StatusCheck", "Reset", OpCmd(opt_operation)>>
             /\ lastCmd = OpCmd(opt_operation))

C4_Witness ==
    /\ opt_operation = OPERATION_HALFCUT
    /\ pc = "ret_end"
    /\ lastCmd = "TapeHalfCut"
    /\ nRecv = 3

(***************************************************************************)
(* C5.  If a step of a print operation reported a recoverable protocol     *)
(* error, the operation ends reporting failure (a non-zero status), after  *)
(* cancel-job was sent and the device released.  main ends with return 0   *)
(* whatever need_cancel holds, so this fails.                              *)
(***************************************************************************)
C5_FailureReported ==
    (opt_operation = OPERATION_PRINT /\ protoErr /\ pc = "ret_end")
    => /\ exit_code # "0"
       /\ CountOf(sent, "CancelJob") = 1
       /\ ~claimed
       /\ ~devhnd

(***************************************************************************)
(* C6.  On every return of main taken after the device was opened the      *)
(* interface has been released and the handle closed.  The returns after   *)
(* a failed claim and after a failed load_image do neither, so this fails. *)
(***************************************************************************)
C6_ReleasedOnReturn ==
    pc \in {"ret_claim", "ret_load", "ret_end"} => (~claimed /\ ~devhnd)

(***************************************************************************)
(* C7.  A transport error (rc # 0 on a send or a receive, or a send whose  *)
(* transferred count differs from the wire size) ends the process at       *)
(* once: the process is aborted in the very step of the failed transfer    *)
(* and no transfer, outbound or inbound, is issued after it.               *)
(***************************************************************************)
C7_TransportErrorFatal ==
    /\ [](transportErr => (pc = "aborted" /\ exit_code = "SIGABRT"))
    /\ [][transportErr => (nSend' = nSend /\ nRecv' = nRecv)]_vars

C7_Witness ==
    /\ transportErr
    /\ pc = "aborted"
    /\ lastCmd = "RasterBlock"
    /\ nRecv = nSend

(***************************************************************************)
(* C8.  Every RasterBlock carries between 1 and 60 payload bytes, so that  *)
(* header plus payload fit the 64-byte frame; the "output too large"       *)
(* abort of send_to_printer is never taken (every abort follows a          *)
(* transport error).                                                       *)
(***************************************************************************)
C8_BlockPayloadBound ==
    /\ (nBlock > 0 => (lastBlk >= 1 /\ lastBlk <= 60))
    /\ (pc = "r_block" => (block_size >= 1 /\ block_size <= 60))
    /\ (lastCmd = "RasterBlock" => (lastTx.cnt <= 64 /\ lastTx.epsize = 64))
    /\ (exit_code = "SIGABRT" => transportErr)

C8_Witness ==
    /\ nBlock > 1
    /\ lastCmd = "RasterBlock"
    /\ lastBlk = 32
    /\ page_size = 8192

(***************************************************************************)
(* C9, as stated.  When raster streaming completes without failure, the    *)
(* last RasterBlock carries pattern_size mod 60 bytes when that is         *)
(* nonzero, else 60.  Blocks start afresh after every page of 8192 bytes,  *)
(* which is no multiple of 60, so this fails beyond one page.              *)
(***************************************************************************)
C9_LastBlockMod60 ==
    (RasterDone /\ pattern_size > 0)
    => lastBlk = (IF pattern_size % 60 # 0 THEN pattern_size % 60 ELSE 60)

(***************************************************************************)
(* C9, amended.  When raster streaming completes without failure, the      *)
(* last RasterBlock carries r mod 60 bytes when that is nonzero, else 60,  *)
(* where r is the size of the last page: pattern_size mod 8192 when that   *)
(* is nonzero, else 8192.                                                  *)
(***************************************************************************)
C9_LastBlockOfLastPage ==
    (RasterDone /\ pattern_size > 0)
    => LET r == IF pattern_size % 8192 # 0 THEN pattern_size % 8192 ELSE 8192
       IN  lastBlk = (IF r % 60 # 0 THEN r % 60 ELSE 60)

C9_Witness ==
    /\ RasterDone
    /\ pattern_size > 8192
    /\ pattern_size % 60 # 0
    /\ lastBlk = 60

(***************************************************************************)
(* C10.  When raster streaming completes without failure for a pattern of  *)
(* pattern_size > 0 bytes, PrintPage was sent exactly                      *)
(* ceil(pattern_size / 8192) times: once, not twice, for exactly 8192.     *)
(***************************************************************************)
C10_PrintPageCount ==
    (RasterDone /\ pattern_size > 0)
    => nPage = (pattern_size + 8191) \div 8192

C10_Witness ==
    /\ RasterDone
    /\ pattern_size = 8192
    /\ nPage = 1
    /\ pc = "ret_end"

(***************************************************************************)
(* C11.  In every print job whose raster streaming runs to completion      *)
(* without failure, for any pattern size, RasterEnd is sent exactly once,  *)
(* directly after the last RasterBlock and directly before the final       *)
(* PrintPage.                                                              *)
(***************************************************************************)
C11_RasterEndOrder ==
    /\ lastCmd = "RasterBlock" => nEnd = 0
    /\ lastCmd = "RasterEnd" => prevCmd = "RasterBlock"
    /\ (lastCmd = "PrintPage" /\ nEnd > 0) => prevCmd = "RasterEnd"

C11_RasterEndOnce ==
    /\ C11_RasterEndOrder
    /\ RasterDone =>
         /\ nEnd = 1
         /\ pc = "cancel" => (lastCmd = "PrintPage" /\ prevCmd = "RasterEnd")

\* the same for the patterns that hold at least one byte
C11_RasterEndOnceNonEmpty ==
    /\ C11_RasterEndOrder
    /\ (RasterDone /\ pattern_size > 0) =>
         /\ nEnd = 1
         /\ pc = "cancel" => (lastCmd = "PrintPage" /\ prevCmd = "RasterEnd")

C11_NonEmptyWitness ==
    /\ RasterDone
    /\ pattern_size > PAGE_LIMIT
    /\ nEnd = 1
    /\ pc = "cancel"

(***************************************************************************)
(* C16.  During raster streaming, as soon as a RasterBlock, RasterEnd or   *)
(* PrintPage command reports a failure, no further raster command is sent  *)
(* and printer_send_raster returns failure to main, which then still sends *)
(* cancel-job.                                                             *)
(***************************************************************************)
RasterFailure == lastCmd \in RasterCmds /\ lastRet = 1

C16_RasterFailureStops ==
    /\ [](RasterFailure => (pc = "cancel" /\ io = "send" /\ need_cancel))
    /\ [][(RasterFailure /\ nSend' # nSend) => lastCmd' = "CancelJob"]_vars
    /\ [][lastCmd = "CancelJob" => nSend' = nSend]_vars
    /\ []((opt_operation = OPERATION_PRINT /\ pc \in {"cleanup", "ret_end"})
            => lastCmd = "CancelJob")

C16_Witness ==
    /\ pc = "ret_end"
    /\ need_cancel
    /\ prevCmd = "RasterBlock"
    /\ lastCmd = "CancelJob"
    /\ nBlock = 2
    /\ nPage = 0
    /\ ~setupErr

(***************************************************************************)
(* C17.  The payload of the RasterBlock commands sent since the previous   *)
(* PrintPage (or since the start) never exceeds 8192 bytes; every page     *)
(* but possibly the last carries exactly 8192 payload bytes; the page      *)
(* accumulator is 0 right after each PrintPage.                            *)
(***************************************************************************)
Min(a, b) == IF a <= b THEN a ELSE b

C17_PageBound ==
    /\ pagePayload <= PAGE_LIMIT
    /\ rasterBytes = Min(nPage * PAGE_LIMIT, pattern_size) + pagePayload
    /\ (pc = "r_block" /\ io = "send") => page_size = pagePayload + block_size
    /\ pc = "r_loop" => page_size = pagePayload
    /\ (lastCmd = "PrintPage" /\ lastRet = 0 /\ pc \in {"r_loop", "cancel"})
         => page_size = 0

C17_Witness ==
    /\ nPage = 2
    /\ lastCmd = "PrintPage"
    /\ lastRet = 0
    /\ pc = "r_loop"
    /\ page_size = 0
    /\ rasterBytes = 2 * PAGE_LIMIT
    /\ pattern_size > 2 * PAGE_LIMIT

(***************************************************************************)
(* C18.  Sends and receives strictly alternate for every command except    *)
(* cancel-job: a frame is sent only when every earlier frame has been      *)
(* answered, a receive is issued only for an unanswered frame, and         *)
(* cancel-job is the only command the program leaves unanswered.           *)
(***************************************************************************)
C18_Alternation ==
    /\ [](nSend = nRecv \/ nSend = nRecv + 1)
    /\ []((nSend = nRecv + 1 /\ io # "recv" /\ pc # "aborted")
            => lastCmd = "CancelJob")
    /\ []((io = "recv") => (nSend = nRecv + 1 /\ lastCmd # "CancelJob"))
    /\ [][nSend' # nSend =>
            (nSend' = nSend + 1 /\ nRecv' = nRecv /\ nSend = nRecv)]_vars
    /\ [][nRecv' # nRecv =>
            (/\ nRecv' = nRecv + 1
             /\ nSend' = nSend
             /\ nSend = nRecv + 1
             /\ lastCmd # "CancelJob")]_vars

C18_Witness ==
    /\ pc = "ret_end"
    /\ opt_operation = OPERATION_PRINT
    /\ lastCmd = "CancelJob"
    /\ nSend = nRecv + 1
    /\ nRecv > 11
    /\ ~transportErr

(***************************************************************************)
(* C12.  Every outbound transfer has the wire size of its command kind,    *)
(* whatever the payload length: 1 byte for the single-opcode commands,     *)
(* 16 bytes for the STX-prefixed structured commands, 64 bytes for every   *)
(* raster block and for nothing else; the bytes after the payload are 0.   *)
(***************************************************************************)
OpcodeCmds == {"TapeCut", "TapeHalfCut", "TapeFeed", "PrintPage", "CancelJob"}

WireSize(cmd) ==
    IF cmd \in OpcodeCmds THEN 1
    ELSE IF cmd = "RasterBlock" THEN 64
    ELSE 16

C12_WireSize ==
    nSend > 0 =>
        /\ Len(lastFrame) = WireSize(lastCmd)
        /\ lastTx.epsize = Len(lastFrame)
        /\ lastTx.cnt <= Len(lastFrame)
        /\ lastCmd = "RasterBlock" => lastTx.cnt = lastBlk + 4
        /\ (lastFrame[1] = PRINTER_STX) = (lastCmd \notin OpcodeCmds)
        /\ \A i \in 1 .. Len(lastFrame) :
             IF i > lastTx.cnt THEN lastFrame[i] = 0
             ELSE lastFrame[i] \in 0 .. 255

\* a short block sent from a buffer that still holds bytes of an earlier one
C12_Witness ==
    /\ lastCmd = "RasterBlock"
    /\ lastBlk < BLOCK_LIMIT
    /\ nBlock > 1
    /\ Len(lastFrame) = 64
    /\ block[lastBlk + 5] > 0
    /\ lastFrame[lastBlk + 5] = 0
    /\ ~transportErr

(***************************************************************************)
(* C19.  For every pattern size > 0, when raster streaming completes       *)
(* without failure, the payloads of the RasterBlock commands, in the order *)
(* sent, make up the pattern buffer byte for byte: each block carries the  *)
(* bytes that follow those already sent, and the last one ends the         *)
(* pattern.                                                                *)
(***************************************************************************)
C19_PayloadIsPattern ==
    /\ lastCmd = "RasterBlock" =>
         /\ lastBlk >= 1
         /\ rasterBytes <= pattern_size
         /\ lastFrame[3] = lastBlk
         /\ \A k \in 1 .. lastBlk :
              lastFrame[4 + k] = PatternByte(rasterBytes - lastBlk + k - 1)
    /\ (RasterDone /\ pattern_size > 0) => rasterBytes = pattern_size

C19_Witness ==
    /\ RasterDone
    /\ pc = "ret_end"
    /\ pattern_size > PAGE_LIMIT
    /\ pattern_size % BLOCK_LIMIT # 0
    /\ rasterBytes = pattern_size
    /\ nPage = 2

(***************************************************************************)
(* C13.  Every ACK-only command reports success if and only if the answer  *)
(* received is exactly one byte long and that byte is 0x06; any other      *)
(* single byte and any other length (no byte at all, several bytes that    *)
(* start with 0x06) is reported as a recoverable failure.                  *)
(***************************************************************************)
C13_AckExactlyOneByte ==
    ack_ret \notin {"none", "SIGABRT"} =>
        /\ ack_cmd \in AckCommands
        /\ ack_ret \in {"0", "1"}
        /\ (ack_ret = "0") = (ack_rsp = <<6>>)

C13_Witness ==
    /\ ack_cmd = "SetDensity"
    /\ ack_rsp = <<6, 6>>
    /\ ack_ret = "1"

(***************************************************************************)
(* C14.  For every bitmap with height < 128, after loading, the canvas has *)
(* exactly (128 - height) / 2 all-zero rows above the image rows and       *)
(* 128 - height - pad_top all-zero rows below them, and bitmap row r is    *)
(* canvas row pad_top + r.                                                 *)
(***************************************************************************)
RowsLoaded == lpc \in {"transpose", "done"}
ZeroRow(row) == \A k \in 1 .. Len(row) : row[k] = 0

CanvasPixel(i, x) == (image_stripes[i][x \div 8 + 1] \div (2 ^ (7 - (x % 8)))) % 2
PatternBit(i, x) == (pattern[x * 16 + i \div 8] \div (2 ^ (i % 8))) % 2

\* the pixel of the bitmap that the centered canvas shows at (i, x)
BitmapPixel(i, x) ==
    LET top == (IMAGE_ROWS - img_h) \div 2
    IN  IF i < top \/ i >= top + img_h THEN 0
        ELSE (FileByte(fin.fill, i - top, x \div 8) \div (2 ^ (7 - (x % 8)))) % 2

C15_TransposeBits ==
    (lpc = "done" /\ fin.h <= IMAGE_ROWS) =>
        /\ DOMAIN pattern = 0 .. (fin.w * 16 - 1)
        /\ \A i \in 0 .. IMAGE_ROWS - 1 : \A x \in 0 .. fin.w - 1 :
             /\ PatternBit(i, x) = CanvasPixel(i, x)
             /\ PatternBit(i, x) = BitmapPixel(i, x)

C15_Witness ==
    /\ lpc = "done"
    /\ fin = [w |-> 8, h |-> 128, fill |-> "mix", rows |-> 128]
    /\ wr_max = 127
    /\ pattern[0] # 0
    /\ pattern[0] # 255

(***************************************************************************)
(* C20.  For every bitmap (any width, also one that is not a multiple of   *)
(* 8, and any content of the unused bits of the last byte of a row),       *)
(* every write of the transpose loop targets a pattern index in            *)
(* 0 .. width*16 - 1: the loop never writes outside the pattern buffer.    *)
(***************************************************************************)
C20_WritesInBounds == wr_max < fin.w * 16

\* the same for the widths whose rows have no unused bits
C20_InBoundsWhenNoPaddingBits ==
    (fin.w % 8 = 0) => wr_max < fin.w * 16

(***************************************************************************)
(* C21.  The bitmap loader terminates on every finite input stream: also   *)
(* when the input ends inside a '#' comment line (no newline before the    *)
(* end of the input), the comment-skipping loop ends, and the loader goes  *)
(* on to the size or returns an error.                                     *)
(***************************************************************************)
HeaderRead == lpc \in {"size", "failed"}

C21_LoaderTerminates == <>HeaderRead

\* the only way not to end: the end of the stream inside a comment
InCommentAtEof ==
    /\ lpc \in {"skip", "skiptest"}
    /\ fin = <<>>
    /\ ch = 255

C21_EndsUnlessEofInComment == <>(HeaderRead \/ InCommentAtEof)

====
